---- MODULE Spec2Model ----
(***************************************************************************)
(* Invoice generator: the CSV loader (parse_csv), the record schema        *)
(* (SellerInfo, InvoiceRow) and the generation orchestrator                *)
(* (generate_invoices), as one sequential state machine.                   *)
(*                                                                         *)
(* Text is a sequence of one-character strings, so the empty string is     *)
(* << >>.  A CSV file is a header (a list of column names), a list of      *)
(* lines (each the list of its field texts, << >> for a blank line) and an *)
(* optional read fault raised when a given line is fetched.                *)
(***************************************************************************)
EXTENDS Integers, Sequences, FiniteSets, TLC

\* Largest number of lines after the header in a modelled CSV file.
MaxLines == 2

\* Longest transaction id given to the filename sanitization on its own.
MaxIdLen == 3

\* Most runs started from one window.
MaxRuns == 2

(***************************************************************************)
(* Text helpers                                                            *)
(***************************************************************************)
Digits == {"0", "1", "2", "3", "4", "5", "6", "7", "8", "9"}
NonZeroDigits == Digits \ {"0"}

DigitVal(c) ==
    CASE c = "0" -> 0 [] c = "1" -> 1 [] c = "2" -> 2 [] c = "3" -> 3
      [] c = "4" -> 4 [] c = "5" -> 5 [] c = "6" -> 6 [] c = "7" -> 7
      [] c = "8" -> 8 [] c = "9" -> 9

AllDigits(s) == \A i \in 1..Len(s) : s[i] \in Digits

RECURSIVE Num(_)
Num(s) == IF s = << >> THEN 0
          ELSE 10 * Num(SubSeq(s, 1, Len(s) - 1)) + DigitVal(s[Len(s)])

Range(s) == {s[i] : i \in 1..Len(s)}

\* Python's None where a text was expected (DictReader's restval).
NoneVal == <<"None">>

(***************************************************************************)
(* models.py: the record schema                                            *)
(***************************************************************************)
IsLeap(y) == (y % 4 = 0 /\ y % 100 # 0) \/ y % 400 = 0

DaysInMonth(y, m) ==
    IF m = 2 THEN (IF IsLeap(y) THEN 29 ELSE 28)
    ELSE IF m \in {4, 6, 9, 11} THEN 30 ELSE 31

\* %m of strptime: 1[0-2] | 0[1-9] | [1-9]
MonthText(t) ==
    \/ Len(t) = 2 /\ t[1] = "1" /\ t[2] \in {"0", "1", "2"}
    \/ Len(t) = 2 /\ t[1] = "0" /\ t[2] \in NonZeroDigits
    \/ Len(t) = 1 /\ t[1] \in NonZeroDigits

\* %d of strptime: 3[01] | [12]\d | 0[1-9] | [1-9] | " "[1-9]
DayText(t) ==
    \/ Len(t) = 2 /\ t[1] = "3" /\ t[2] \in {"0", "1"}
    \/ Len(t) = 2 /\ t[1] \in {"1", "2"} /\ t[2] \in Digits
    \/ Len(t) = 2 /\ t[1] \in {"0", " "} /\ t[2] \in NonZeroDigits
    \/ Len(t) = 1 /\ t[1] \in NonZeroDigits

DayNum(t) == IF t[1] = " " THEN DigitVal(t[2]) ELSE Num(t)

\* datetime.strptime(v, "%Y-%m-%d") succeeds: the whole text matches
\* \d{4}-%m-%d with month and day of one or two characters, and the
\* numbers are a date of the calendar (year >= 1).
StrptimeOk(v) ==
    \E ml \in {1, 2}, dl \in {1, 2} :
        /\ Len(v) = 6 + ml + dl
        /\ AllDigits(SubSeq(v, 1, 4))
        /\ v[5] = "-"
        /\ v[6 + ml] = "-"
        /\ MonthText(SubSeq(v, 6, 5 + ml))
        /\ DayText(SubSeq(v, 7 + ml, 6 + ml + dl))
        /\ Num(SubSeq(v, 1, 4)) >= 1
        /\ DayNum(SubSeq(v, 7 + ml, 6 + ml + dl))
               <= DaysInMonth(Num(SubSeq(v, 1, 4)), Num(SubSeq(v, 6, 5 + ml)))

\* Decimal(text) for the plain notation  [+-] digits [. digits] :
\* ok iff the text is a number; neg and coeff give its sign and digits.
ParseDecimal(v) ==
    LET signed == Len(v) >= 1 /\ v[1] \in {"+", "-"}
        body   == IF signed THEN SubSeq(v, 2, Len(v)) ELSE v
        dots   == {i \in 1..Len(body) : body[i] = "."}
        digs   == SelectSeq(body, LAMBDA c : c # ".")
        ok     == /\ Cardinality(dots) <= 1
                  /\ Len(digs) >= 1
                  /\ AllDigits(digs)
    IN [ok    |-> ok,
        neg   |-> signed /\ v[1] = "-",
        coeff |-> IF ok THEN Num(digs) ELSE 0]

\* The constraint as ge=0.
GreaterThanZeroMutant(d) == d.ok /\ ~d.neg

\* Field(..., gt=0) on a Decimal
GreaterThanZero(d) == d.ok /\ ~d.neg /\ d.coeff > 0

\* The fields of InvoiceRow, in declaration order (the order of
\* pydantic's error list).
InvoiceFields == <<"transaction_id", "customer_name", "date", "item", "amount">>

\* The error message pydantic reports for field f holding v; "" if none.
InvoiceFieldError(f, v) ==
    IF f = "amount"
    THEN IF v = NoneVal THEN "Decimal input should be an integer, float, string or Decimal object"
         ELSE IF ~ParseDecimal(v).ok THEN "Input should be a valid decimal"
         ELSE IF ~GreaterThanZero(ParseDecimal(v)) THEN "Input should be greater than 0"
         ELSE ""
    ELSE IF v = NoneVal THEN "Input should be a valid string"
    ELSE IF f = "date"
    THEN IF ~StrptimeOk(v) THEN "Value error, Date must be in YYYY-MM-DD format" ELSE ""
    ELSE IF Len(v) < 1 THEN "String should have at least 1 character"
    ELSE ""

\* Validation that stops at the first violated field.
InvoiceRowErrorsMutant(d) ==
    LET bad == SelectSeq(InvoiceFields, LAMBDA f : InvoiceFieldError(f, d[f]) # "")
    IN [i \in 1..(IF bad = << >> THEN 0 ELSE 1) |->
           <<bad[i], InvoiceFieldError(bad[i], d[bad[i]])>>]

\* e.errors() of InvoiceRow(**d): one <<field, message>> per violated
\* field, in declaration order.
InvoiceRowErrors(d) ==
    LET bad == SelectSeq(InvoiceFields, LAMBDA f : InvoiceFieldError(f, d[f]) # "")
    IN [i \in 1..Len(bad) |-> <<bad[i], InvoiceFieldError(bad[i], d[bad[i]])>>]

\* The validated InvoiceRow built from the mapping d.
InvoiceRow(d) ==
    [transaction_id |-> d["transaction_id"],
     customer_name  |-> d["customer_name"],
     date           |-> d["date"],
     item           |-> d["item"],
     amount         |-> d["amount"]]

\* SellerInfo(full_name, address, ico): every field min_length=1.
SellerFields == <<"full_name", "address", "ico">>

SellerInfoErrors(s) ==
    LET bad == SelectSeq(SellerFields, LAMBDA f : Len(s[f]) < 1)
    IN [i \in 1..Len(bad) |-> <<bad[i], "String should have at least 1 character">>]

(***************************************************************************)
(* Exceptions                                                              *)
(***************************************************************************)
\* The base class of each exception class the program meets.
ExcParent ==
    [c \in {"FileNotFoundError", "PermissionError", "IsADirectoryError",
            "FileExistsError", "OSError", "UnicodeDecodeError", "ValueError",
            "ValidationError", "CSVValidationError", "csv.Error", "TypeError",
            "Exception"} |->
        CASE c \in {"FileNotFoundError", "PermissionError", "IsADirectoryError",
                    "FileExistsError"} -> "OSError"
          [] c \in {"UnicodeDecodeError", "ValidationError"} -> "ValueError"
          [] c = "Exception" -> "BaseException"
          [] OTHER -> "Exception"]

RECURSIVE IsSubclass(_, _)
IsSubclass(c, d) ==
    \/ c = d
    \/ c \in DOMAIN ExcParent /\ IsSubclass(ExcParent[c], d)

\* An exception: its class, the fixed part of its message, the variable
\* part (names, or the text of the wrapped error), and the errors
\* attribute (CSVValidationError only).
Exc(cls, msg, detail) ==
    [cls |-> cls, msg |-> msg, detail |-> detail, errors |-> << >>]

NoExc == Exc("", "", << >>)

(***************************************************************************)
(* csv.DictReader                                                          *)
(***************************************************************************)
\* The key under which DictReader stores the fields beyond the header
\* (restkey=None): not a string, so not a keyword InvoiceRow accepts.
RestKey == "<None>"

\* The mapping DictReader builds for one line: dict(zip(fieldnames, row)),
\* the surplus fields under restkey, the absent ones set to restval (None).
DictRow(fieldnames, row) ==
    LET keys == Range(fieldnames) \cup
                (IF Len(row) > Len(fieldnames) THEN {RestKey} ELSE {})
        last(k) == CHOOSE i \in 1..Len(fieldnames) :
                      /\ fieldnames[i] = k
                      /\ \A j \in 1..Len(fieldnames) : fieldnames[j] = k => j <= i
    IN [k \in keys |->
          IF k = RestKey THEN SubSeq(row, Len(fieldnames) + 1, Len(row))
          ELSE IF last(k) <= Len(row) THEN row[last(k)] ELSE NoneVal]

\* DictReader.__next__ skips blank lines (row == []): the index of the
\* first non-blank line after position pos, Len(lines) + 1 if there is none.
RECURSIVE NextRecord(_, _)
NextRecord(lines, pos) ==
    IF pos >= Len(lines) THEN Len(lines) + 1
    ELSE IF lines[pos + 1] # << >> THEN pos + 1
    ELSE NextRecord(lines, pos + 1)

(***************************************************************************)
(* The inputs of the model                                                 *)
(***************************************************************************)
Empty   == << >>
T1      == <<"T", "1">>
T2      == <<"T", "/", "2">>
Acme    == <<"A">>
Item    == <<"x">>
DateOk  == <<"2", "0", "2", "4", "-", "0", "2", "-", "2", "9">>
DateBad == <<"2", "0", "2", "6", "-", "1", "3", "-", "4", "5">>
AmtOk   == <<"0", ".", "0", "1">>
AmtZero == <<"0">>

Blank      == << >>
RowValid1  == <<T1, Acme, DateOk, Item, AmtOk>>
RowValid2  == <<T2, Acme, DateOk, Item, AmtOk>>
RowBadDate == <<T1, Acme, DateBad, Item, AmtOk>>
RowBadMany == <<Empty, Acme, DateBad, Item, AmtZero>>
RowShort   == <<T1, Acme, DateOk, Item>>
RowLong    == <<T1, Acme, DateOk, Item, AmtOk, Item>>

LineItems == {Blank, RowValid1, RowValid2, RowBadDate, RowBadMany, RowShort, RowLong}

required_columns == {"transaction_id", "customer_name", "date", "item", "amount"}

HeaderFull      == <<"transaction_id", "customer_name", "date", "item", "amount">>
HeaderExtra     == <<"transaction_id", "customer_name", "date", "item", "amount", "notes">>
HeaderMissing   == <<"transaction_id", "customer_name", "date">>
HeaderWrongCase == <<"transaction_id", "customer_name", "date", "item", "Amount">>
HeaderNone      == << >>

Headers == {HeaderFull, HeaderExtra, HeaderMissing, HeaderWrongCase, HeaderNone}

\* The errors the operating system, the decoder or the csv reader can
\* raise while a line is fetched.
ReadFaults == {"UnicodeDecodeError", "OSError", "csv.Error"}

NoFault == [at |-> 0, cls |-> ""]

LinesUpTo(n) == UNION {[1..k -> LineItems] : k \in 0..n}

Faults == {NoFault} \cup [at : 1..(MaxLines + 1), cls : ReadFaults]

\* fault.at = 1 is the header line, fault.at = j + 1 the j-th line after it.
Files ==
    {file \in [fieldnames : Headers, lines : LinesUpTo(MaxLines), fault : Faults] :
        file.fault.at <= Len(file.lines) + 1}

\* What the path given to parse_csv names.
PathKinds == {"absent", "directory", "unreadable", "file"}

NoFile == [fieldnames |-> << >>, lines |-> << >>, fault |-> NoFault]

ValidSeller == [full_name |-> Acme, address |-> Item, ico |-> T1]
Sellers == {ValidSeller,
            [ValidSeller EXCEPT !.ico = Empty],
            [ValidSeller EXCEPT !.full_name = Empty, !.address = Empty]}

\* template_path of generate_invoices: "" stands for None (both are falsy).
TemplatePaths == {"", "custom.html"}

\* The template file the run will use (the custom one, or the built-in
\* templates/invoice.html): there, missing, or its directory missing.
TemplateStates == {"present", "absent", "dir_missing"}

(***************************************************************************)
(* State                                                                   *)
(***************************************************************************)
VARIABLES
    pc,                 \* position in generate_invoices / parse_csv
    template_path,      \* argument of generate_invoices
    fs_template,        \* state of the template on disk
    seller,             \* seller_name, seller_address, seller_ico
    on_progress,        \* TRUE iff a progress callback was supplied
    path_kind,          \* what csv_path names, "unknown" until examined
    csv,                \* the contents of the CSV file, once opened
    pos,                \* number of lines the reader has consumed
    row_num,            \* number given to the last data row
    validation_errors,  \* parse_csv: list of <<row_num, field_errors>>
    invoice_rows,       \* parse_csv: list of validated rows
    error_lines,        \* for each entry of validation_errors, its line in the file
    validated,          \* the lines (by index) that were given to InvoiceRow
    parse_result,       \* what parse_csv returned or raised
    out_dir_made,       \* output.mkdir(...) was carried out by this run
    idx,                \* index of the last row processed by the loop
    successful,         \* GenerationResult.successful
    failed,             \* GenerationResult.failed
    progress,           \* the calls made to on_progress
    attempted,          \* the rows whose render/export was attempted
    result,             \* what generate_invoices returned or raised
    exit_code,          \* <<n>> once main() has returned n, NoExit before
    call,               \* a call of one function on its own: [fn, arg, out]
    gui                 \* InvoiceGeneratorApp: widgets, worker threads, after() calls

vars == <<pc, template_path, fs_template, seller, on_progress, path_kind, csv,
          pos, row_num, validation_errors, invoice_rows, error_lines, validated,
          parse_result, out_dir_made, idx, successful, failed, progress,
          attempted, result, exit_code, call, gui>>

\* The arguments of generate_invoices and the state of its callers, none of
\* which a step of generate_invoices or parse_csv changes.
inputVars == <<template_path, fs_template, seller, on_progress, exit_code, call, gui>>
parseVars == <<path_kind, csv, pos, row_num, validation_errors, invoice_rows,
               error_lines, validated, parse_result>>
loopVars  == <<out_dir_made, idx, successful, failed, progress, attempted>>

Pending == [kind |-> "pending", exc |-> NoExc]
ParsePending == [kind |-> "pending", exc |-> NoExc, value |-> << >>]

NoExit == << >>

\* The state of the window as it is built: button enabled, bar at 0,
\* status "Ready", no worker thread, nothing given to after().
Status(text, args, error) == [text |-> text, args |-> args, error |-> error]

NoGui ==
    [generate_btn |-> "normal",
     progress_bar |-> <<0, 1>>,
     status_label |-> Status("Ready", << >>, FALSE),
     threads      |-> 0,
     worker       |-> "none",
     final        |-> << >>,
     handled      |-> << >>,
     runs         |-> 0]
NoCall == [fn |-> "none", arg |-> << >>, out |-> << >>]

Init ==
    /\ pc = "g_template"
    /\ exit_code = NoExit
    /\ call = NoCall
    /\ gui = NoGui
    /\ template_path \in TemplatePaths
    /\ fs_template \in TemplateStates
    /\ seller \in Sellers
    /\ on_progress \in BOOLEAN
    /\ path_kind = "unknown"
    /\ csv = NoFile
    /\ pos = 0
    /\ row_num = 1
    /\ validation_errors = << >>
    /\ invoice_rows = << >>
    /\ error_lines = << >>
    /\ validated = << >>
    /\ parse_result = ParsePending
    /\ out_dir_made = FALSE
    /\ idx = 0
    /\ successful = << >>
    /\ failed = << >>
    /\ progress = << >>
    /\ attempted = << >>
    /\ result = Pending

(***************************************************************************)
(* csv_parser.py                                                           *)
(***************************************************************************)
\* CSVValidationError.__init__: one line "Row <n>: '<field>': <msg>, ..."
\* per entry of errors, the lines joined by newlines.  The text is the
\* sequence of its pieces.
RECURSIVE FieldErrorsText(_)
FieldErrorsText(field_errors) ==
    IF field_errors = << >> THEN << >>
    ELSE <<"'", field_errors[1][1], "': ", field_errors[1][2]>>
         \o (IF Len(field_errors) > 1 THEN <<", ">> ELSE << >>)
         \o FieldErrorsText(Tail(field_errors))

RECURSIVE ErrorMessages(_)
ErrorMessages(errors) ==
    IF errors = << >> THEN << >>
    ELSE <<"Row ", ToString(errors[1][1]), ": ">>
         \o FieldErrorsText(errors[1][2])
         \o (IF Len(errors) > 1 THEN <<"\n">> ELSE << >>)
         \o ErrorMessages(Tail(errors))

CSVValidationError(errors) ==
    [cls |-> "CSVValidationError", msg |-> "", detail |-> ErrorMessages(errors),
     errors |-> errors]

\* sorted() on column names: their lexicographic order.
ColumnRank(c) ==
    CASE c = "amount" -> 1 [] c = "customer_name" -> 2 [] c = "date" -> 3
      [] c = "item" -> 4 [] c = "transaction_id" -> 5

\* The names of S in the order of declaration instead of sorted order.
SortedMutant(S) == SelectSeq(InvoiceFields, LAMBDA c : c \in S)

RECURSIVE Sorted(_)
Sorted(S) ==
    IF S = {} THEN << >>
    ELSE LET m == CHOOSE x \in S : \A y \in S : ColumnRank(x) <= ColumnRank(y)
         IN <<m>> \o Sorted(S \ {m})

\* The error a read fault raises.
FaultExc(cls) ==
    Exc(cls,
        CASE cls = "UnicodeDecodeError" -> "'utf-8' codec can't decode byte"
          [] cls = "OSError" -> "[Errno 5] Input/output error"
          [] cls = "csv.Error" -> "field larger than field limit"
          [] OTHER -> "",
        << >>)

\* The except clauses of parse_csv: FileNotFoundError, ValueError and
\* CSVValidationError (and their subclasses) are re-raised as they are,
\* every other Exception becomes the generic read failure.
ParseExcept(e) ==
    IF \/ IsSubclass(e.cls, "FileNotFoundError")
       \/ IsSubclass(e.cls, "ValueError")
       \/ IsSubclass(e.cls, "CSVValidationError")
    THEN e
    ELSE Exc("ValueError", "Error reading CSV file: ", <<e.msg>>)

\* generate_invoices has no handler: what it or parse_csv raises leaves the call.
Raise(e) ==
    /\ result' = [kind |-> "raised", exc |-> e]
    /\ pc' = "done"

\* parse_csv raises e, which propagates out of generate_invoices.
ParseRaise(e) ==
    /\ parse_result' = [kind |-> "raised", exc |-> e, value |-> << >>]
    /\ Raise(e)

\* if not path.exists(): raise FileNotFoundError
ParseExists ==
    /\ pc = "p_exists"
    /\ \E k \in PathKinds :
        /\ path_kind' = k
        /\ IF k = "absent"
           THEN ParseRaise(Exc("FileNotFoundError", "CSV file not found: ", << >>))
           ELSE /\ pc' = "p_open"
                /\ UNCHANGED <<parse_result, result>>
    /\ UNCHANGED <<inputVars, loopVars, csv, pos, row_num, validation_errors,
                   invoice_rows, error_lines, validated>>

\* with open(path, "r", encoding="utf-8") as f: reader = csv.DictReader(f)
ParseOpen ==
    /\ pc = "p_open"
    /\ IF path_kind = "directory"
       THEN /\ ParseRaise(ParseExcept(Exc("IsADirectoryError", "[Errno 21] Is a directory", << >>)))
            /\ UNCHANGED csv
       ELSE IF path_kind = "unreadable"
       THEN /\ ParseRaise(ParseExcept(Exc("PermissionError", "[Errno 13] Permission denied", << >>)))
            /\ UNCHANGED csv
       ELSE /\ csv' \in Files
            /\ pc' = "p_header"
            /\ UNCHANGED <<parse_result, result>>
    /\ UNCHANGED <<inputVars, loopVars, path_kind, pos, row_num, validation_errors,
                   invoice_rows, error_lines, validated>>

\* reader.fieldnames is read from the first line; the two header checks.
ParseHeader ==
    /\ pc = "p_header"
    /\ LET missing_columns == required_columns \ Range(csv.fieldnames)
       IN IF csv.fault.at = 1
          THEN ParseRaise(ParseExcept(FaultExc(csv.fault.cls)))
          ELSE IF csv.fieldnames = << >>
          THEN ParseRaise(ParseExcept(
                   Exc("ValueError", "CSV file is empty or has no header row", << >>)))
          ELSE IF missing_columns # {}
          THEN ParseRaise(ParseExcept(
                   Exc("ValueError", "Missing required columns: ", Sorted(missing_columns))))
          ELSE /\ pc' = "p_loop"
               /\ UNCHANGED <<parse_result, result>>
    /\ UNCHANGED <<inputVars, loopVars, path_kind, csv, pos, row_num,
                   validation_errors, invoice_rows, error_lines, validated>>

\* The line at which the next fetch stops, and whether the fetch meets the
\* read fault on its way there.
NextLine == NextRecord(csv.lines, pos)

FaultHit ==
    /\ csv.fault.at > 1
    /\ csv.fault.at - 1 > pos
    /\ csv.fault.at - 1 <= NextLine

\* One iteration of  for row_num, row_dict in enumerate(reader, start=2).
ParseRow ==
    /\ pc = "p_loop"
    /\ FaultHit \/ NextLine <= Len(csv.lines)
    /\ IF FaultHit
       THEN /\ ParseRaise(ParseExcept(FaultExc(csv.fault.cls)))
            /\ UNCHANGED <<pos, row_num, validation_errors, invoice_rows,
                           error_lines, validated>>
       ELSE LET row_dict == DictRow(csv.fieldnames, csv.lines[NextLine])
                n        == row_num + 1
            IN /\ pos' = NextLine
               /\ row_num' = n
               /\ IF RestKey \in DOMAIN row_dict
                  THEN /\ ParseRaise(ParseExcept(
                              Exc("TypeError", "keywords must be strings", << >>)))
                       /\ UNCHANGED <<validation_errors, invoice_rows,
                                      error_lines, validated>>
                  ELSE /\ validated' = Append(validated, NextLine)
                       /\ IF InvoiceRowErrors(row_dict) = << >>
                          THEN /\ invoice_rows' = Append(invoice_rows, InvoiceRow(row_dict))
                               /\ UNCHANGED <<validation_errors, error_lines>>
                          ELSE /\ validation_errors' =
                                     Append(validation_errors, <<n, InvoiceRowErrors(row_dict)>>)
                               /\ error_lines' = Append(error_lines, NextLine)
                               /\ UNCHANGED invoice_rows
                       /\ UNCHANGED <<pc, parse_result, result>>
    /\ UNCHANGED <<inputVars, loopVars, path_kind, csv>>

\* ParseFinish with a loader that treats a file without valid rows as an error.
ParseFinishMutant ==
    /\ pc = "p_loop"
    /\ ~FaultHit
    /\ NextLine > Len(csv.lines)
    /\ IF validation_errors # << >>
       THEN ParseRaise(ParseExcept(CSVValidationError(validation_errors)))
       ELSE IF invoice_rows = << >>
       THEN ParseRaise(ParseExcept(Exc("ValueError", "No invoices found in CSV file", << >>)))
       ELSE /\ parse_result' = [kind |-> "returned", exc |-> NoExc,
                                 value |-> invoice_rows]
            /\ pc' = "g_empty"
            /\ UNCHANGED result
    /\ pos' = Len(csv.lines)
    /\ UNCHANGED <<inputVars, loopVars, path_kind, csv, row_num, validation_errors,
                   invoice_rows, error_lines, validated>>

\* The reader is exhausted: raise CSVValidationError or return invoice_rows.
ParseFinish ==
    /\ pc = "p_loop"
    /\ ~FaultHit
    /\ NextLine > Len(csv.lines)
    /\ IF validation_errors # << >>
       THEN ParseRaise(ParseExcept(CSVValidationError(validation_errors)))
       ELSE /\ parse_result' = [kind |-> "returned", exc |-> NoExc,
                                 value |-> invoice_rows]
            /\ pc' = "g_empty"
            /\ UNCHANGED result
    /\ pos' = Len(csv.lines)
    /\ UNCHANGED <<inputVars, loopVars, path_kind, csv, row_num, validation_errors,
                   invoice_rows, error_lines, validated>>

(***************************************************************************)
(* renderer.py and pdf_generator.py: the outcome of one call               *)
(***************************************************************************)
\* What can go wrong inside the template engine for one row.
RenderFaults == {"none", "TemplateSyntaxError", "Exception"}

\* What can go wrong while the PDF of one row is written.
ExportFaults == {"none", "mkdir:PermissionError", "OSError:denied",
                 "OSError:no such file", "OSError:other", "Exception"}

Ok == [ok |-> TRUE, exc |-> NoExc]
Fail(e) == [ok |-> FALSE, exc |-> e]

\* template_dir and template_name of render_invoice: the parent and the
\* name of template_path, or templates/invoice.html under the project root.
template_dir(tpath) == IF tpath # "" THEN "." ELSE "<project_root>/templates"
template_name(tpath) == IF tpath # "" THEN tpath ELSE "invoice.html"

\* str(e) of the error of the template engine: the engine's own message
\* (the message of a syntax error met while loading, of an undefined
\* value, of a filter), which does not name the template file.
EngineMessage == "<engine message>"

\* render_invoice(seller, invoice, template_path) when the template on
\* disk is in state tstate and the engine meets fault r.
render_invoice(tpath, tstate, r) ==
    IF tstate = "dir_missing"
    THEN Fail(Exc("FileNotFoundError", "Template directory not found: ",
                  <<template_dir(tpath)>>))
    ELSE IF tstate = "absent"
    THEN Fail(Exc("FileNotFoundError", "Template not found: ",
                  <<template_name(tpath), " in ", template_dir(tpath)>>))
    ELSE IF r = "TemplateSyntaxError"
    THEN Fail(Exc("ValueError", "Template syntax error in ",
                  <<template_name(tpath), ": ", EngineMessage>>))
    ELSE IF r = "Exception"
    THEN Fail(Exc("ValueError", "Error rendering template: ", <<EngineMessage>>))
    ELSE Ok

\* A template is a sequence of nodes: literal text, or  {{ obj.field }}
\* (safe = FALSE) and  {{ obj.field|safe }}  (safe = TRUE).
Text(t) == [kind |-> "text", text |-> t, obj |-> "", field |-> "", safe |-> FALSE]
Var(obj, field, safe) ==
    [kind |-> "var", text |-> << >>, obj |-> obj, field |-> field, safe |-> safe]

\* Environment(autoescape=False): the values are substituted as they are.
EscapeMutant(s) == s

\* The escaping applied by Environment(autoescape=True) to a substituted
\* text: & < > ' " become &amp; &lt; &gt; &#39; &#34;
RECURSIVE Escape(_)
Escape(s) ==
    IF s = << >> THEN << >>
    ELSE (CASE Head(s) = "&"  -> <<"&", "a", "m", "p", ";">>
            [] Head(s) = "<"  -> <<"&", "l", "t", ";">>
            [] Head(s) = ">"  -> <<"&", "g", "t", ";">>
            [] Head(s) = "'"  -> <<"&", "#", "3", "9", ";">>
            [] Head(s) = "\"" -> <<"&", "#", "3", "4", ";">>
            [] OTHER          -> <<Head(s)>>) \o Escape(Tail(s))

\* template.render(seller=seller, invoice=invoice): the document, as the
\* sequence of the texts its nodes produce (the document is their
\* concatenation).
RenderHtml(template, s, inv) ==
    [k \in 1..Len(template) |->
        LET node  == template[k]
            value == IF node.obj = "seller" THEN s[node.field] ELSE inv[node.field]
        IN IF node.kind = "text" THEN node.text
           ELSE IF node.safe THEN value
           ELSE Escape(value)]

\* str(e): the message of an exception, as the sequence of its pieces.
StrExc(e) == <<e.msg>> \o e.detail

\* html_to_pdf(html_content, output_path) when the file system or the
\* engine meets fault x.
html_to_pdf(x) ==
    IF x = "mkdir:PermissionError"
    THEN Fail(Exc("PermissionError", "[Errno 13] Permission denied", << >>))
    ELSE IF x = "OSError:denied"
    THEN Fail(Exc("PermissionError", "Cannot write PDF file: ",
                  <<"<pdf_path>", ". Permission denied.">>))
    ELSE IF x = "OSError:no such file"
    THEN Fail(Exc("FileNotFoundError", "Cannot create PDF file: ",
                  <<"<pdf_path>", ". Directory not found.">>))
    ELSE IF x = "OSError:other"
    THEN Fail(Exc("FileNotFoundError", "Error writing PDF file: ",
                  <<"<pdf_path>", ". ", EngineMessage>>))
    ELSE IF x = "Exception"
    THEN Fail(Exc("ValueError", "Error generating PDF: ",
                  <<"<error_type>", ": ", EngineMessage>>))
    ELSE Ok

(***************************************************************************)
(* main.py: generate_invoices                                              *)
(***************************************************************************)
Letters == {"T", "A", "x", "X", "N", "c", "s", "v"}

IsAlnum(c) == c \in Digits \cup Letters

\* No sanitization: the transaction id is used as it is.
SafeFilenameKeepMutant(transaction_id) == transaction_id

\* The sanitization with each unsafe character replaced by "_" instead of
\* removed.
SafeFilenameMutant(transaction_id) ==
    [i \in 1..Len(transaction_id) |->
        IF IsAlnum(transaction_id[i]) \/ transaction_id[i] \in {"-", "_", "."}
        THEN transaction_id[i] ELSE "_"]

\* "".join(c for c in transaction_id if c.isalnum() or c in ("-", "_", "."))
SafeFilename(transaction_id) ==
    SelectSeq(transaction_id, LAMBDA c : IsAlnum(c) \/ c \in {"-", "_", "."})

PdfName(transaction_id) == SafeFilename(transaction_id) \o <<".", "p", "d", "f">>

\* GenerationResult.total with the failed rows left out of the count.
totalMutant(succ, fail) == Len(succ)

\* GenerationResult.total:  len(self.successful) + len(self.failed)
total(succ, fail) == Len(succ) + Len(fail)

\* GenerationResult.all_succeeded:  len(self.failed) == 0
all_succeeded(fail) == Len(fail) = 0

\* The files of the output directory after the exports recorded in succ:
\* each export writes to  output / pdf_name,  so equal names are one file.
written_files(succ) == {succ[i] : i \in DOMAIN succ}

\* GenTemplate without the check: the template is first looked for when a
\* row is rendered.
GenTemplateMutant ==
    /\ pc = "g_template"
    /\ pc' = "g_seller"
    /\ UNCHANGED <<inputVars, parseVars, loopVars, result>>

\* pdf_file = output / pdf_name, as the components of the path below the
\* output directory: the name is cut at each path separator.
PathSeparators == {"/", "\\"}

RECURSIVE PathParts(_)
PathParts(name) ==
    IF name = << >> THEN << >>
    ELSE LET seps  == {i \in 1..Len(name) : name[i] \in PathSeparators}
             cut   == IF seps = {} THEN Len(name) + 1
                      ELSE CHOOSE i \in seps : \A j \in seps : i <= j
             first == SubSeq(name, 1, cut - 1)
         IN (IF first = << >> THEN << >> ELSE <<first>>)
            \o PathParts(SubSeq(name, cut + 1, Len(name)))

pdf_file(pdf_name) == PathParts(pdf_name)

\* if template_path: if not Path(template_path).exists(): raise
GenTemplate ==
    /\ pc = "g_template"
    /\ IF template_path # "" /\ fs_template # "present"
       THEN Raise(Exc("FileNotFoundError", "Template file not found: ", << >>))
       ELSE /\ pc' = "g_seller"
            /\ UNCHANGED result
    /\ UNCHANGED <<inputVars, parseVars, loopVars>>

\* seller_info = SellerInfo(...)
GenSeller ==
    /\ pc = "g_seller"
    /\ IF SellerInfoErrors(seller) # << >>
       THEN Raise(Exc("ValidationError", "validation errors for SellerInfo",
                      SellerInfoErrors(seller)))
       ELSE /\ pc' = "p_exists"
            /\ UNCHANGED result
    /\ UNCHANGED <<inputVars, parseVars, loopVars>>

\* GenCheckEmpty without the check: an empty row list goes on to the loop.
GenCheckEmptyMutant ==
    /\ pc = "g_empty"
    /\ pc' = "g_mkdir"
    /\ UNCHANGED result
    /\ UNCHANGED <<inputVars, parseVars, loopVars>>

\* if not invoice_rows: raise ValueError
GenCheckEmpty ==
    /\ pc = "g_empty"
    /\ IF invoice_rows = << >>
       THEN Raise(Exc("ValueError", "No invoices found in CSV file", << >>))
       ELSE /\ pc' = "g_mkdir"
            /\ UNCHANGED result
    /\ UNCHANGED <<inputVars, parseVars, loopVars>>

\* output.mkdir(parents=True, exist_ok=True); result = GenerationResult()
GenMkdir ==
    /\ pc = "g_mkdir"
    /\ \E e \in {"none", "PermissionError", "FileExistsError"} :
        IF e = "none"
        THEN /\ out_dir_made' = TRUE
             /\ pc' = "g_loop"
             /\ UNCHANGED result
        ELSE /\ Raise(Exc(e, "mkdir", << >>))
             /\ UNCHANGED out_dir_made
    /\ UNCHANGED <<inputVars, parseVars, idx, successful, failed, progress, attempted>>

\* GenRow with the progress report inside the try block, after the append:
\* a failed row is not reported.
GenRowQuietMutant ==
    /\ pc = "g_loop"
    /\ idx < Len(invoice_rows)
    /\ \E r \in RenderFaults, x \in ExportFaults :
        LET invoice  == invoice_rows[idx + 1]
            pdf_name == PdfName(invoice.transaction_id)
            rendered == render_invoice(template_path, fs_template, r)
            outcome  == IF rendered.ok THEN html_to_pdf(x) ELSE rendered
        IN /\ idx' = idx + 1
           /\ attempted' = Append(attempted, idx + 1)
           /\ IF outcome.ok
              THEN /\ successful' = Append(successful, pdf_name)
                   /\ progress' = IF on_progress
                                  THEN Append(progress, <<idx + 1, Len(invoice_rows), pdf_name>>)
                                  ELSE progress
                   /\ UNCHANGED failed
              ELSE /\ failed' = Append(failed, <<pdf_name, StrExc(outcome.exc)>>)
                   /\ UNCHANGED <<successful, progress>>
    /\ UNCHANGED <<inputVars, parseVars, pc, out_dir_made, result>>

\* GenRow without the try/except: the failure of a row leaves the call.
GenRowMutant ==
    /\ pc = "g_loop"
    /\ idx < Len(invoice_rows)
    /\ \E r \in RenderFaults, x \in ExportFaults :
        LET invoice  == invoice_rows[idx + 1]
            pdf_name == PdfName(invoice.transaction_id)
            rendered == render_invoice(template_path, fs_template, r)
            outcome  == IF rendered.ok THEN html_to_pdf(x) ELSE rendered
        IN /\ idx' = idx + 1
           /\ attempted' = Append(attempted, idx + 1)
           /\ UNCHANGED failed
           /\ IF outcome.ok
              THEN /\ successful' = Append(successful, pdf_name)
                   /\ progress' = IF on_progress
                                  THEN Append(progress, <<idx + 1, Len(invoice_rows), pdf_name>>)
                                  ELSE progress
                   /\ UNCHANGED <<pc, result>>
              ELSE /\ Raise(outcome.exc)
                   /\ UNCHANGED <<successful, progress>>
    /\ UNCHANGED <<inputVars, parseVars, out_dir_made>>

\* One iteration of  for idx, invoice in enumerate(invoice_rows, start=1):
\* render, export, record the outcome, report progress.
GenRow ==
    /\ pc = "g_loop"
    /\ idx < Len(invoice_rows)
    /\ \E r \in RenderFaults, x \in ExportFaults :
        LET invoice  == invoice_rows[idx + 1]
            pdf_name == PdfName(invoice.transaction_id)
            rendered == render_invoice(template_path, fs_template, r)
            outcome  == IF rendered.ok THEN html_to_pdf(x) ELSE rendered
        IN /\ idx' = idx + 1
           /\ attempted' = Append(attempted, idx + 1)
           /\ IF outcome.ok
              THEN /\ successful' = Append(successful, pdf_name)
                   /\ UNCHANGED failed
              ELSE /\ failed' = Append(failed, <<pdf_name, StrExc(outcome.exc)>>)
                   /\ UNCHANGED successful
           /\ progress' = IF on_progress
                          THEN Append(progress, <<idx + 1, Len(invoice_rows), pdf_name>>)
                          ELSE progress
    /\ UNCHANGED <<inputVars, parseVars, pc, out_dir_made, result>>

\* return result
GenReturn ==
    /\ pc = "g_loop"
    /\ idx = Len(invoice_rows)
    /\ result' = [kind |-> "returned", exc |-> NoExc]
    /\ pc' = "done"
    /\ UNCHANGED <<inputVars, parseVars, loopVars>>

(***************************************************************************)
(* main.py: main                                                           *)
(***************************************************************************)
\* cli_progress:  print(f"Generated {filename} ({current}/{total})")
cli_progress(current, n, filename) ==
    <<"Generated ", filename, " (", ToString(current), "/", ToString(n), ")">>

\* The progress lines on standard output: one per call of the callback.
ProgressLines(calls) ==
    [i \in 1..Len(calls) |-> cli_progress(calls[i][1], calls[i][2], calls[i][3])]

\* The except clauses of main(), in the order they are written.
MainHandlers == <<"ValidationError", "FileNotFoundError", "PermissionError",
                  "CSVValidationError", "ValueError", "Exception">>

\* main() returning 0 whenever generate_invoices returned.
MainExitCodeMutant(res, fail) ==
    IF res.kind = "returned" THEN <<0>> ELSE <<1>>

\* The value main() returns, as a one-element tuple:  0 if
\* result.all_succeeded else 1  after the call returned, 1 from each except
\* clause; NoExit if no clause catches the exception.
MainExitCode(res, fail) ==
    IF res.kind = "returned"
    THEN IF all_succeeded(fail) THEN <<0>> ELSE <<1>>
    ELSE IF \E k \in 1..Len(MainHandlers) : IsSubclass(res.exc.cls, MainHandlers[k])
    THEN <<1>>
    ELSE NoExit

\* main(): the run was started with cli_progress as its callback; when
\* generate_invoices has returned or raised, main returns its exit code.
CliMain ==
    /\ pc = "done"
    /\ on_progress
    /\ exit_code = NoExit
    /\ exit_code' = MainExitCode(result, failed)
    /\ UNCHANGED <<pc, template_path, fs_template, seller, on_progress, call, gui,
                   parseVars, loopVars, result>>

Next ==
    \/ GenTemplate
    \/ GenSeller
    \/ ParseExists
    \/ ParseOpen
    \/ ParseHeader
    \/ ParseRow
    \/ ParseFinish
    \/ GenCheckEmpty
    \/ GenMkdir
    \/ GenRow
    \/ GenReturn
    \/ CliMain

Spec == Init /\ [][Next]_vars

(***************************************************************************)
(* The functions called on their own: each behaviour picks one function    *)
(* and one argument, and applies the function to it.                       *)
(***************************************************************************)
\* The state of generate_invoices while no run is in progress.
NoRun ==
    /\ pc = "idle"
    /\ template_path = ""
    /\ fs_template = "present"
    /\ seller = ValidSeller
    /\ on_progress = FALSE
    /\ path_kind = "unknown"
    /\ csv = NoFile
    /\ pos = 0
    /\ row_num = 1
    /\ validation_errors = << >>
    /\ invoice_rows = << >>
    /\ error_lines = << >>
    /\ validated = << >>
    /\ parse_result = ParsePending
    /\ out_dir_made = FALSE
    /\ idx = 0
    /\ successful = << >>
    /\ failed = << >>
    /\ progress = << >>
    /\ attempted = << >>
    /\ result = Pending
    /\ exit_code = NoExit
    /\ gui = NoGui

runVars == <<pc, template_path, fs_template, seller, on_progress, parseVars,
             loopVars, result, exit_code, gui>>

Call(fn, arg) == [fn |-> fn, arg |-> arg, out |-> << >>]

\* Transaction ids: non-empty texts (min_length=1) over safe and unsafe
\* characters, and the identifier 'TXN/001*.csv'.
IdChars == {"T", "1", "/", "\\", "*", ".", "-", "_"}

TxnExample == <<"T", "X", "N", "/", "0", "0", "1", "*", ".", "c", "s", "v">>

TransactionIds ==
    UNION {[1..n -> IdChars] : n \in 1..MaxIdLen} \cup {TxnExample}

\* safe_filename and pdf_name of the loop body, applied to the argument and
\* then to its own result.
ApplySafeFilename ==
    /\ call.fn = "safe_filename"
    /\ Len(call.out) < 2
    /\ LET x == IF call.out = << >> THEN call.arg ELSE call.out[Len(call.out)].safe_filename
       IN call' = [call EXCEPT !.out = Append(@, [safe_filename |-> SafeFilename(x),
                                                   pdf_name      |-> PdfName(x),
                                                   pdf_file      |-> pdf_file(PdfName(x))])]
    /\ UNCHANGED runVars

\* A row of valid values, as the mapping given to InvoiceRow(**row_dict).
ValidRowDict ==
    [f \in Range(InvoiceFields) |->
        CASE f = "transaction_id" -> T1
          [] f = "customer_name"  -> Acme
          [] f = "date"           -> DateOk
          [] f = "item"           -> Item
          [] f = "amount"         -> AmtOk]

\* Amounts in plain notation: a sign, the digits before the point, and
\* either no point (frac = <<"none">>) or a point and the digits after it.
NoPoint == <<"none">>

AmountParts ==
    [sign : {<< >>, <<"+">>, <<"-">>},
     int  : {<< >>, <<"0">>, <<"1">>, <<"0", "0">>, <<"1", "0">>},
     frac : {NoPoint, << >>, <<"0">>, <<"0", "1">>, <<"5">>, <<"0", "0">>}]

AmountText(p) ==
    p.sign \o p.int \o (IF p.frac = NoPoint THEN << >> ELSE <<".">> \o p.frac)

\* Texts that are not numbers.
AmountWords == {<<"a", "b", "c">>, << >>, <<"1", ".", "2", ".", "3">>, <<"1", "x">>}

\* Dates written as year, separator, month, separator, day.
DateParts ==
    [y   : {<<"2", "0", "2", "4">>, <<"2", "0", "2", "6">>, <<"0", "0", "0", "0">>,
            <<"2", "0", "2">>},
     m   : {<<"0", "1">>, <<"1">>, <<"0", "2">>, <<"2">>, <<"1", "2">>, <<"1", "3">>,
            <<"0", "0">>},
     d   : {<<"2", "9">>, <<"3", "0">>, <<"3", "1">>, <<"0", "5">>, <<"5">>, <<" ", "5">>,
            <<"4", "5">>, <<"0", "0">>},
     sep : {"-", "/"}]

DateText(p) == p.y \o <<p.sep>> \o p.m \o <<p.sep>> \o p.d

\* 01/15/2026
DateUS == <<"0", "1", "/", "1", "5", "/", "2", "0", "2", "6">>

\* Rows in which each field is either valid or breaks its rule.
RowDicts ==
    {d \in [Range(InvoiceFields) -> {T1, Acme, Item, Empty, DateOk, DateBad, AmtOk, AmtZero}] :
        /\ d["transaction_id"] \in {T1, Empty}
        /\ d["customer_name"] \in {Acme, Empty}
        /\ d["item"] \in {Item, Empty}
        /\ d["date"] \in {DateOk, DateBad}
        /\ d["amount"] \in {AmtOk, AmtZero}}

InvoiceRowCalls ==
    {Call("InvoiceRow", [about |-> "amount", number |-> TRUE, parts |-> p,
                         row |-> [ValidRowDict EXCEPT !["amount"] = AmountText(p)]])
        : p \in AmountParts}
    \cup
    {Call("InvoiceRow", [about |-> "amount", number |-> FALSE, parts |-> << >>,
                         row |-> [ValidRowDict EXCEPT !["amount"] = w]])
        : w \in AmountWords}
    \cup
    {Call("InvoiceRow", [about |-> "date", parts |-> p,
                         row |-> [ValidRowDict EXCEPT !["date"] = DateText(p)]])
        : p \in DateParts}
    \cup
    {Call("InvoiceRow", [about |-> "date",
                         parts |-> [y |-> << >>, m |-> << >>, d |-> << >>, sep |-> "/"],
                         row |-> [ValidRowDict EXCEPT !["date"] = DateUS]])}
    \cup
    {Call("InvoiceRow", [about |-> "fields", row |-> d]) : d \in RowDicts}

\* SellerInfo(full_name=..., address=..., ico=...): the validation of the
\* seller; the result is the error list.
SellerCalls ==
    {Call("SellerInfo", s) :
        s \in [full_name : {Acme, Empty}, address : {Item, Empty}, ico : {T1, Empty}]}

ApplySellerInfo ==
    /\ call.fn = "SellerInfo"
    /\ call.out = << >>
    /\ call' = [call EXCEPT !.out = <<SellerInfoErrors(call.arg)>>]
    /\ UNCHANGED runVars

\* InvoiceRow(**row_dict): the validation of one mapping; the result is the
\* error list, empty when the record is accepted.
ApplyInvoiceRow ==
    /\ call.fn = "InvoiceRow"
    /\ call.out = << >>
    /\ call' = [call EXCEPT !.out = <<InvoiceRowErrors(call.arg.row)>>]
    /\ UNCHANGED runVars

\* Custom templates: one with plain substitutions, one marking a value safe.
TemplatePlain ==
    <<Text(<<"<", "p", ">">>), Var("seller", "full_name", FALSE),
      Text(<<"<", "/", "p", ">">>), Var("invoice", "customer_name", FALSE)>>

TemplateSafe ==
    <<Text(<<"<", "p", ">">>), Var("seller", "full_name", FALSE),
      Text(<<"<", "/", "p", ">">>), Var("invoice", "customer_name", TRUE)>>

Templates == {TemplatePlain, TemplateSafe}

\* Texts with and without markup-special characters.
MarkupTexts == {Acme, <<"<", "b", ">">>, <<"A", "&", "B">>, <<"\"">>, <<"'">>,
                <<"&", "l", "t", ";">>}

RenderCalls ==
    {Call("render_invoice",
          [template_path |-> "custom.html", fs_template |-> ts, fault |-> r,
           template |-> t,
           seller   |-> [ValidSeller EXCEPT !.full_name = n],
           invoice  |-> InvoiceRow([ValidRowDict EXCEPT !["customer_name"] = c])])
        : ts \in TemplateStates, r \in RenderFaults, t \in Templates,
          n \in MarkupTexts, c \in MarkupTexts}

\* render_invoice(seller, invoice, template_path): the document, or the
\* exception raised.
ApplyRender ==
    /\ call.fn = "render_invoice"
    /\ call.out = << >>
    /\ LET a       == call.arg
           outcome == render_invoice(a.template_path, a.fs_template, a.fault)
       IN call' = [call EXCEPT !.out =
                      <<[ok   |-> outcome.ok,
                         exc  |-> outcome.exc,
                         html |-> IF outcome.ok
                                  THEN RenderHtml(a.template, a.seller, a.invoice)
                                  ELSE << >>]>>]
    /\ UNCHANGED runVars

\* html_to_pdf(html_content, output_path): nothing, or the exception raised,
\* for each fault the file system or the engine can meet.
ExportCalls == {Call("html_to_pdf", x) : x \in ExportFaults}

ApplyHtmlToPdf ==
    /\ call.fn = "html_to_pdf"
    /\ call.out = << >>
    /\ call' = [call EXCEPT !.out = <<html_to_pdf(call.arg)>>]
    /\ UNCHANGED runVars

CallInputs ==
    {Call("safe_filename", t) : t \in TransactionIds}
    \cup InvoiceRowCalls
    \cup SellerCalls
    \cup RenderCalls
    \cup ExportCalls

InitCalls ==
    /\ NoRun
    /\ call \in CallInputs

NextCalls ==
    \/ ApplySafeFilename
    \/ ApplyInvoiceRow
    \/ ApplySellerInfo
    \/ ApplyRender
    \/ ApplyHtmlToPdf

SpecCalls == InitCalls /\ [][NextCalls]_vars

(***************************************************************************)
(* gui.py: InvoiceGeneratorApp.  The presentation thread runs the click    *)
(* handler and the calls given to after(); a worker thread runs            *)
(* generate_invoices.                                                      *)
(***************************************************************************)
workVars == <<pc, template_path, fs_template, seller, on_progress, parseVars,
              loopVars, result, exit_code, call>>

AfterCall(fn, args) == [fn |-> fn, args |-> args]

\* The calls the worker of the current run has given to self.after(0, ...),
\* in the order it made them: one _update_progress per call of on_progress
\* (gui.py:228-229), then those made when generate_invoices has ended.
Enqueued ==
    [i \in 1..Len(progress) |-> AfterCall("_update_progress", progress[i])] \o gui.final

\* The positions in Enqueued of the calls not yet run, oldest first.
AfterQueue ==
    SelectSeq([i \in 1..Len(Enqueued) |-> i],
              LAMBDA i : \A k \in 1..Len(gui.handled) : gui.handled[k] # i)

\* An event loop that runs the waiting calls in any order.
DueMutant(queue) == {k : k \in 1..Len(queue)}

\* Which of the waiting calls the event loop runs next: calls given to
\* after() with the same delay are run in the order they were given.
Due(queue) == {k \in 1..Len(queue) : k = 1}

\* CTkButton.configure(require_redraw=False, **kwargs): the state of the
\* button after the call; only a keyword argument "state" changes it.
ButtonConfigure(state, require_redraw, kwargs) ==
    IF \E kv \in kwargs : kv[1] = "state"
    THEN (CHOOSE kv \in kwargs : kv[1] = "state")[2]
    ELSE state

\* _on_generate without  self.generate_btn.configure(state="disabled").
OnGenerateMutant ==
    /\ gui.runs < MaxRuns
    /\ gui.generate_btn = "normal"
    /\ gui' = [gui EXCEPT !.progress_bar = <<0, 1>>,
                          !.status_label = Status("Starting...", << >>, FALSE),
                          !.threads = @ + 1,
                          !.worker = "running",
                          !.final = << >>,
                          !.handled = << >>,
                          !.runs = @ + 1]
    /\ pc' = "g_template"
    /\ template_path' = "custom.html"
    /\ seller' = ValidSeller
    /\ on_progress' = TRUE
    /\ path_kind' = "unknown"
    /\ csv' = NoFile
    /\ pos' = 0
    /\ row_num' = 1
    /\ validation_errors' = << >>
    /\ invoice_rows' = << >>
    /\ error_lines' = << >>
    /\ validated' = << >>
    /\ parse_result' = ParsePending
    /\ out_dir_made' = FALSE
    /\ idx' = 0
    /\ successful' = << >>
    /\ failed' = << >>
    /\ progress' = << >>
    /\ attempted' = << >>
    /\ result' = Pending
    /\ UNCHANGED <<fs_template, exit_code, call>>

\* _on_generate, the command of the Generate button (a disabled button
\* does not run its command): with inputs missing it only sets the status;
\* otherwise it disables the button, resets the bar, and starts a worker
\* thread on _run_generation with the template path, the seller fields and
\* its own on_progress.
OnGenerate ==
    /\ gui.runs < MaxRuns
    /\ gui.generate_btn = "normal"
    /\ \/ /\ gui' = [gui EXCEPT !.status_label =
                                    Status("Missing required fields: ", << >>, TRUE)]
          /\ UNCHANGED workVars
       \/ /\ gui' = [gui EXCEPT !.generate_btn =
                                    ButtonConfigure(@, FALSE, {<<"state", "disabled">>}),
                                !.progress_bar = <<0, 1>>,
                                !.status_label = Status("Starting...", << >>, FALSE),
                                !.threads = @ + 1,
                                !.worker = "running",
                                !.final = << >>,
                                !.handled = << >>,
                                !.runs = @ + 1]
          /\ pc' = "g_template"
          /\ template_path' = "custom.html"
          /\ seller' = ValidSeller
          /\ on_progress' = TRUE
          /\ path_kind' = "unknown"
          /\ csv' = NoFile
          /\ pos' = 0
          /\ row_num' = 1
          /\ validation_errors' = << >>
          /\ invoice_rows' = << >>
          /\ error_lines' = << >>
          /\ validated' = << >>
          /\ parse_result' = ParsePending
          /\ out_dir_made' = FALSE
          /\ idx' = 0
          /\ successful' = << >>
          /\ failed' = << >>
          /\ progress' = << >>
          /\ attempted' = << >>
          /\ result' = Pending
          /\ UNCHANGED <<fs_template, exit_code, call>>

\* _run_generation after generate_invoices returned:
\* self.after(0, self._on_complete, result); the thread ends.
WorkerComplete ==
    /\ gui.worker = "running"
    /\ pc = "done"
    /\ result.kind = "returned"
    /\ gui' = [gui EXCEPT !.final = Append(@, AfterCall("_on_complete",
                                        [successful |-> successful, failed |-> failed])),
                          !.worker = "ended",
                          !.threads = @ - 1]
    /\ UNCHANGED workVars

\* _run_generation, except Exception: first
\* self.after(0, self._set_status, str(e), True), then
\* self.after(0, self.generate_btn.configure, {"state": "normal"}); the
\* thread ends.
WorkerError ==
    /\ pc = "done"
    /\ result.kind = "raised"
    /\ \/ /\ gui.worker = "running"
          /\ gui' = [gui EXCEPT !.final = Append(@, AfterCall("_set_status",
                                              <<StrExc(result.exc), TRUE>>)),
                                !.worker = "raised"]
       \/ /\ gui.worker = "raised"
          /\ gui' = [gui EXCEPT !.final = Append(@, AfterCall("generate_btn.configure",
                                              <<{<<"state", "normal">>}>>)),
                                !.worker = "ended",
                                !.threads = @ - 1]
    /\ UNCHANGED workVars

\* The window after the presentation thread has run the call c.
Handle(c) ==
    IF c.fn = "_update_progress"
    THEN [gui EXCEPT !.progress_bar = <<c.args[1], c.args[2]>>,
                     !.status_label = Status("Generating ", c.args, FALSE)]
    ELSE IF c.fn = "_on_complete"
    THEN [gui EXCEPT !.generate_btn = ButtonConfigure(@, FALSE, {<<"state", "normal">>}),
                     !.progress_bar = <<1, 1>>,
                     !.status_label =
                         IF all_succeeded(c.args.failed)
                         THEN Status("Done -- generated ", <<Len(c.args.successful)>>, FALSE)
                         ELSE Status("Generated , failed ", <<Len(c.args.successful),
                                     Len(c.args.failed)>>, TRUE)]
    ELSE IF c.fn = "_set_status"
    THEN [gui EXCEPT !.status_label = Status("<str(e)>", c.args[1], c.args[2])]
    ELSE [gui EXCEPT !.generate_btn = ButtonConfigure(@, c.args[1], {})]

\* The event loop of the presentation thread runs one waiting call.
Mainloop ==
    /\ \E k \in Due(AfterQueue) :
          gui' = [Handle(Enqueued[AfterQueue[k]]) EXCEPT
                     !.handled = Append(@, AfterQueue[k])]
    /\ UNCHANGED workVars

InitGui ==
    /\ pc = "idle"
    /\ template_path = "custom.html"
    /\ fs_template \in TemplateStates
    /\ seller = ValidSeller
    /\ on_progress = TRUE
    /\ path_kind = "unknown"
    /\ csv = NoFile
    /\ pos = 0
    /\ row_num = 1
    /\ validation_errors = << >>
    /\ invoice_rows = << >>
    /\ error_lines = << >>
    /\ validated = << >>
    /\ parse_result = ParsePending
    /\ out_dir_made = FALSE
    /\ idx = 0
    /\ successful = << >>
    /\ failed = << >>
    /\ progress = << >>
    /\ attempted = << >>
    /\ result = Pending
    /\ exit_code = NoExit
    /\ call = NoCall
    /\ gui = NoGui

\* The steps of the worker thread.
Worker ==
    \/ GenTemplate
    \/ GenSeller
    \/ ParseExists
    \/ ParseOpen
    \/ ParseHeader
    \/ ParseRow
    \/ ParseFinish
    \/ GenCheckEmpty
    \/ GenMkdir
    \/ GenRow
    \/ GenReturn
    \/ WorkerComplete
    \/ WorkerError

NextGui ==
    \/ OnGenerate
    \/ Worker
    \/ Mainloop

SpecGui == InitGui /\ [][NextGui]_vars

\* The worker thread and the event loop keep running; the user need not
\* click.
SpecGuiFair == SpecGui /\ WF_vars(Worker) /\ WF_vars(Mainloop)

(***************************************************************************)
(* Properties                                                              *)
(***************************************************************************)
IsFile == path_kind = "file"
ParseEnded == parse_result.kind # "pending"

\* The file is read to its end without an I/O or decoding error.
ReadOk == csv.fault = NoFault

HeaderComplete == \A c \in required_columns : \E i \in 1..Len(csv.fieldnames) : csv.fieldnames[i] = c

\* The non-blank lines of the file (its data rows), by index, in file order.
DataLineIdx == SelectSeq([j \in 1..Len(csv.lines) |-> j], LAMBDA j : csv.lines[j] # << >>)

\* The named fields of data row j violate the schema.
InvalidRow(j) == InvoiceRowErrors(DictRow(csv.fieldnames, csv.lines[j])) # << >>

\* C1: for a readable CSV with a complete header, parse_csv returns a
\* list only if every data row passes validation, and if some data row
\* has failed validation it raises CSVValidationError and returns no record.
C1_AllOrNothing ==
    (ParseEnded /\ IsFile /\ ReadOk /\ HeaderComplete) =>
        /\ parse_result.kind = "returned" =>
              \A j \in Range(DataLineIdx) : ~InvalidRow(j)
        /\ validation_errors # << >> =>
              /\ parse_result.kind = "raised"
              /\ parse_result.exc.cls = "CSVValidationError"
              /\ parse_result.value = << >>

\* The text names row number n and, on the same line, every field of fields.
MessageNames(text, n, fields) ==
    \E p \in 1..Len(text) :
        /\ text[p] = "Row "
        /\ p < Len(text)
        /\ text[p + 1] = ToString(n)
        /\ \A f \in fields :
              \E q \in (p + 2)..Len(text) :
                  /\ text[q] = f
                  /\ \A k \in p..q : text[k] # "\n"

\* C2: for a readable CSV with a complete header and N > 0 invalid rows
\* among M, every one of the M rows is validated, CSVValidationError is
\* raised after the full pass, its errors hold one entry per invalid row
\* in file order, and its text names each invalid row's number and each
\* violated field of that row.
C2_NoShortCircuit ==
    (/\ ParseEnded /\ IsFile /\ ReadOk /\ HeaderComplete
     /\ \E j \in Range(DataLineIdx) : InvalidRow(j)) =>
        /\ validated = DataLineIdx
        /\ parse_result.exc.cls = "CSVValidationError"
        /\ error_lines = SelectSeq(DataLineIdx, InvalidRow)
        /\ parse_result.exc.errors = validation_errors
        /\ Len(validation_errors) = Len(error_lines)
        /\ \A i \in 1..Len(validation_errors) :
              MessageNames(parse_result.exc.detail, validation_errors[i][1],
                           {InvoiceRowErrors(DictRow(csv.fieldnames,
                                csv.lines[error_lines[i]]))[k][1] :
                              k \in 1..Len(InvoiceRowErrors(DictRow(csv.fieldnames,
                                csv.lines[error_lines[i]])))})

\* C3: the row number of every recorded failure is the 1-based position
\* of that row in the file, the header being row 1 (the j-th line after
\* the header is row j + 1).
C3_RowNumberIsFileRow ==
    \A i \in 1..Len(validation_errors) :
        validation_errors[i][1] = error_lines[i] + 1

\* The required columns the header lacks, compared case-exactly.
MissingColumns ==
    {c \in required_columns : \A i \in 1..Len(csv.fieldnames) : csv.fieldnames[i] # c}

SortedNames(names) ==
    \A i, j \in 1..Len(names) : i < j => ColumnRank(names[i]) < ColumnRank(names[j])

MissingColumnsFailure ==
    /\ parse_result.kind = "raised"
    /\ parse_result.exc.cls = "ValueError"
    /\ parse_result.exc.msg = "Missing required columns: "
    /\ Range(parse_result.exc.detail) = MissingColumns
    /\ SortedNames(parse_result.exc.detail)
    /\ validated = << >>
    /\ row_num = 1

\* C4 as stated: for any readable CSV whose header lacks a required
\* column, parse_csv fails with the missing-columns ValueError before
\* validating any row, listing exactly the missing names in sorted order.
C4_Original ==
    (ParseEnded /\ IsFile /\ ReadOk /\ MissingColumns # {}) => MissingColumnsFailure

\* C4 as amended: the same, for a header row that names at least one column.
C4_MissingColumns ==
    (ParseEnded /\ IsFile /\ ReadOk /\ MissingColumns # {} /\ csv.fieldnames # << >>)
        => MissingColumnsFailure

C4_Witness ==
    /\ MissingColumnsFailure
    /\ Len(parse_result.exc.detail) = 2
    /\ csv.lines # << >>

\* C5: for a readable CSV with a complete header and no data row,
\* parse_csv returns the empty list and raises nothing.
C5_EmptyReturnsEmpty ==
    (ParseEnded /\ IsFile /\ ReadOk /\ HeaderComplete /\ DataLineIdx = << >>) =>
        /\ parse_result.kind = "returned"
        /\ parse_result.value = << >>
        /\ parse_result.exc = NoExc

C5_Witness ==
    /\ IsFile /\ HeaderComplete /\ DataLineIdx = << >>
    /\ parse_result.kind = "returned"
    /\ parse_result.value = << >>

\* C6: parse_csv fails with FileNotFoundError whenever the path is absent
\* or names something that is not a regular file.
C6_NotAFile ==
    (ParseEnded /\ path_kind \in {"absent", "directory"}) =>
        /\ parse_result.kind = "raised"
        /\ parse_result.exc.cls = "FileNotFoundError"

\* C7: whatever parse_csv raises is the file-not-found failure, a header
\* failure, the row-validation failure, or the generic read failure
\* "Error reading CSV file: ...": nothing else leaves the call.
C7_GenericReadFailure ==
    parse_result.kind = "raised" =>
        \/ /\ parse_result.exc.cls = "FileNotFoundError"
           /\ parse_result.exc.msg = "CSV file not found: "
        \/ /\ parse_result.exc.cls = "ValueError"
           /\ parse_result.exc.msg \in {"Missing required columns: ",
                                        "CSV file is empty or has no header row",
                                        "Error reading CSV file: "}
        \/ parse_result.exc.cls = "CSVValidationError"

\* C8: when the custom template is missing, the seller is invalid, the
\* CSV load fails or no row was loaded, generate_invoices raises, and in
\* that run no row is rendered or exported, the progress callback is not
\* invoked, the output directory is not created and nothing is returned.
C8_FailFast ==
    (\/ template_path # "" /\ fs_template # "present"
     \/ SellerInfoErrors(seller) # << >>
     \/ parse_result.kind = "raised"
     \/ parse_result.kind = "returned" /\ invoice_rows = << >>) =>
        /\ attempted = << >> /\ successful = << >> /\ failed = << >>
        /\ progress = << >>
        /\ ~out_dir_made
        /\ pc \notin {"g_mkdir", "g_loop"}
        /\ result.kind # "returned"
        /\ pc = "done" => result.kind = "raised"

C8_Witness ==
    /\ pc = "done"
    /\ parse_result.kind = "returned"
    /\ result.kind = "raised"
    /\ result.exc.msg = "No invoices found in CSV file"

\* C9: a missing template (custom or built-in, file or directory) aborts
\* the run before any row is processed and is never recorded as a
\* per-row failure.
C9_TemplateMissingAborts ==
    fs_template # "present" =>
        /\ attempted = << >>
        /\ failed = << >>
        /\ pc = "done" => result.kind = "raised"

\* C10: once the per-row loop has started, no failure of a row ends the
\* run: the rows are attempted once each in file order, and the call
\* returns a GenerationResult after the last row.
C10_BestEffort ==
    out_dir_made =>
        /\ pc \in {"g_loop", "done"}
        /\ idx <= Len(invoice_rows)
        /\ attempted = [i \in 1..idx |-> i]
        /\ result.kind # "raised"
        /\ pc = "done" => /\ result.kind = "returned"
                          /\ attempted = [i \in 1..Len(invoice_rows) |-> i]

C10_Witness ==
    /\ pc = "done"
    /\ result.kind = "returned"
    /\ Len(invoice_rows) = 2
    /\ Len(failed) = 1
    /\ failed[1][1] = PdfName(invoice_rows[1].transaction_id)
    /\ successful = <<PdfName(invoice_rows[2].transaction_id)>>

\* The output names of the rows in s (row indices), in file order.
NamesOf(s) ==
    LET picked == SelectSeq([i \in 1..Len(invoice_rows) |-> i], LAMBDA i : i \in s)
    IN [k \in 1..Len(picked) |-> PdfName(invoice_rows[picked[k]].transaction_id)]

FailedNames == [k \in 1..Len(failed) |-> failed[k][1]]

\* C11: after k rows have been processed the two lists hold k entries
\* together; every processed row has exactly one entry, in exactly one of
\* the lists, and each list is in file order; on return the total is the
\* number of rows loaded and all_succeeded holds exactly when the failed
\* list is empty.
C11_OutcomeAccounting ==
    /\ Len(successful) + Len(failed) = idx
    /\ \E s \in SUBSET (1..idx) :
          /\ successful = NamesOf(s)
          /\ FailedNames = NamesOf((1..idx) \ s)
    /\ (pc = "done" /\ result.kind = "returned") =>
          /\ total(successful, failed) = Len(invoice_rows)
          /\ all_succeeded(failed) <=> (failed = << >>)

C11_Witness ==
    /\ pc = "done"
    /\ result.kind = "returned"
    /\ Len(invoice_rows) = 2
    /\ Len(successful) = 1
    /\ Len(failed) = 1
    /\ successful[1] = PdfName(invoice_rows[2].transaction_id)
    /\ successful[1] # failed[1][1]
    /\ total(successful, failed) = 2
    /\ ~all_succeeded(failed)

\* C12: with a progress callback supplied, the callback has been invoked
\* once for each row processed so far, failed rows included, in row order:
\* the i-th invocation carries the count i, the total N of rows loaded and
\* the output name of row i; it follows the recording of row i's outcome
\* and precedes the attempt of row i+1, and a run over N rows ends with
\* exactly N invocations.
C12_ProgressPerRow ==
    on_progress =>
        /\ progress = [i \in 1..idx |->
                         <<i, Len(invoice_rows), PdfName(invoice_rows[i].transaction_id)>>]
        /\ Len(progress) = Len(successful) + Len(failed)
        /\ Len(progress) = Len(attempted)
        /\ (pc = "done" /\ result.kind = "returned") => Len(progress) = Len(invoice_rows)

C12_Witness ==
    /\ on_progress
    /\ pc = "done"
    /\ result.kind = "returned"
    /\ Len(invoice_rows) = 2
    /\ Len(failed) = 1
    /\ failed[1][1] = progress[1][3]
    /\ progress[1][1] = 1
    /\ progress[2][1] = 2
    /\ progress[2][2] = 2

\* C13: after a run in which every row succeeds, the output directory
\* holds one distinct file per loaded row: the number of distinct files
\* written equals the number of entries of the success list, no file having
\* been overwritten by another row of the run.
C13_OneFilePerRow ==
    (pc = "done" /\ result.kind = "returned" /\ all_succeeded(failed)) =>
        /\ Cardinality(written_files(successful)) = Len(successful)
        /\ Len(successful) = Len(invoice_rows)

\* The characters the sanitization keeps.
SafeChar(c) == IsAlnum(c) \/ c \in {"-", "_", "."}

\* t with the characters that are not safe removed, the others in their
\* original order: the k-th character is the one at the k-th safe position.
Kept(t) ==
    LET keep   == {i \in 1..Len(t) : SafeChar(t[i])}
        nth(k) == CHOOSE i \in keep : Cardinality({j \in keep : j < i}) = k - 1
    IN [k \in 1..Cardinality(keep) |-> t[nth(k)]]

\* C14: the output filename is the transaction id with every character
\* removed that is not alphanumeric, '-', '_' or '.', the others in their
\* original order, followed by ".pdf"; sanitizing the result again changes
\* nothing, and an id of safe characters only is left as it is.
C14_SafeFilename ==
    (call.fn = "safe_filename" /\ call.out # << >>) =>
        /\ call.out[1].safe_filename = Kept(call.arg)
        /\ call.out[1].pdf_name = Kept(call.arg) \o <<".", "p", "d", "f">>
        /\ (\A i \in 1..Len(call.arg) : SafeChar(call.arg[i]))
              => call.out[1].safe_filename = call.arg
        /\ Len(call.out) = 2 => call.out[2].safe_filename = call.out[1].safe_filename
        /\ call.arg = TxnExample =>
              call.out[1].pdf_name = <<"T", "X", "N", "0", "0", "1", ".", "c", "s", "v",
                                       ".", "p", "d", "f">>

C14_Witness ==
    /\ call.fn = "safe_filename"
    /\ call.arg = TxnExample
    /\ Len(call.out) = 2
    /\ Len(call.out[1].safe_filename) < Len(call.arg)

\* C15: main() returns 0 exactly when generate_invoices returned with no
\* failed row, and 1 for every other outcome: any exception raised by the
\* call (seller validation, missing file, permission, CSV validation, any
\* other ValueError such as zero rows, anything unexpected) and a returned
\* result with at least one failed row.
C15_ExitCode ==
    /\ exit_code # NoExit =>
          /\ exit_code \in {<<0>>, <<1>>}
          /\ exit_code = <<0>> <=> (result.kind = "returned" /\ failed = << >>)
          /\ result.kind = "raised" => exit_code = <<1>>
          /\ (result.kind = "returned" /\ failed # << >>) => exit_code = <<1>>
    /\ (pc = "done" /\ on_progress) => MainExitCode(result, failed) # NoExit

C15_Witness ==
    /\ exit_code = <<1>>
    /\ result.kind = "returned"
    /\ Len(successful) = 1
    /\ Len(failed) = 1

\* The amount written with the parts p is a number: it has a digit.  For a
\* number, it is greater than zero: no minus sign and a digit other than 0.
PartsAreNumber(p) ==
    p.int # << >> \/ (p.frac # NoPoint /\ p.frac # << >>)

PartsArePositive(p) ==
    /\ PartsAreNumber(p)
    /\ p.sign # <<"-">>
    /\ \/ \E i \in 1..Len(p.int) : p.int[i] # "0"
       \/ p.frac # NoPoint /\ \E i \in 1..Len(p.frac) : p.frac[i] # "0"

\* C16: an amount is accepted exactly when its text is a decimal number
\* strictly greater than zero; zero, negative amounts and texts that are
\* not numbers are rejected, each with one error, on the field "amount";
\* 0.01 is accepted.
C16_AmountPositive ==
    (call.fn = "InvoiceRow" /\ call.out # << >> /\ call.arg.about = "amount") =>
        LET errors   == call.out[1]
            positive == call.arg.number /\ PartsArePositive(call.arg.parts)
        IN /\ errors = << >> <=> positive
           /\ ~positive => (Len(errors) = 1 /\ errors[1][1] = "amount")
           /\ call.arg.row["amount"] = <<"0", ".", "0", "1">> => errors = << >>
           /\ call.arg.row["amount"] \in {<<"0">>, <<"-", "1">>, <<"-", "0", ".", "0", "1">>,
                                          <<"a", "b", "c">>}
                 => errors # << >>

C16_Witness ==
    /\ call.fn = "InvoiceRow"
    /\ call.arg.about = "amount"
    /\ call.arg.row["amount"] = <<"0">>
    /\ Len(call.out) = 1
    /\ Len(call.out[1]) = 1
    /\ call.out[1][1][1] = "amount"

\* The date written with the parts p is a date of the calendar in the form
\* YYYY-MM-DD: four digits, '-', two digits, '-', two digits, naming a
\* month of the year and a day of that month.
IsoDate(p) ==
    /\ p.sep = "-"
    /\ Len(p.y) = 4 /\ AllDigits(p.y)
    /\ Len(p.m) = 2 /\ AllDigits(p.m)
    /\ Len(p.d) = 2 /\ AllDigits(p.d)
    /\ Num(p.y) >= 1
    /\ Num(p.m) \in 1..12
    /\ Num(p.d) >= 1
    /\ Num(p.d) <= DaysInMonth(Num(p.y), Num(p.m))

\* C17: a date is accepted exactly when it is a date of the calendar
\* written YYYY-MM-DD with a four-digit year, a two-digit month and a
\* two-digit day, so that the date text of every accepted record has that
\* form; 2024-02-29 is accepted, 2026-13-45 and 01/15/2026 are rejected.
C17_DateForm ==
    (call.fn = "InvoiceRow" /\ call.out # << >> /\ call.arg.about = "date") =>
        /\ call.out[1] = << >> <=> IsoDate(call.arg.parts)
        /\ call.arg.row["date"] = DateOk => call.out[1] = << >>
        /\ call.arg.row["date"] \in {DateBad, DateUS} => call.out[1] # << >>

\* The fields named by a list of <<field, message>> pairs.
ReportedFields(errors) == {errors[i][1] : i \in 1..Len(errors)}

\* C18: each text field of SellerInfo (full_name, address, ico) and of
\* InvoiceRow (transaction_id, customer_name, item) rejects the empty
\* string, and a value violating several rules at once is reported with
\* one <<field, message>> pair for each violated field, not only the first.
C18_EmptyTextAndAllErrors ==
    /\ (call.fn = "SellerInfo" /\ call.out # << >>) =>
          LET errors == call.out[1]
          IN /\ ReportedFields(errors) = {f \in Range(SellerFields) : call.arg[f] = Empty}
             /\ Len(errors) = Cardinality(ReportedFields(errors))
    /\ (call.fn = "InvoiceRow" /\ call.out # << >> /\ call.arg.about = "fields") =>
          LET errors == call.out[1]
              row    == call.arg.row
          IN /\ ReportedFields(errors) =
                    {f \in {"transaction_id", "customer_name", "item"} : row[f] = Empty}
                    \cup (IF row["date"] = DateBad THEN {"date"} ELSE {})
                    \cup (IF row["amount"] = AmtZero THEN {"amount"} ELSE {})
             /\ Len(errors) = Cardinality(ReportedFields(errors))

C18_Witness ==
    /\ call.fn = "InvoiceRow"
    /\ call.arg.about = "fields"
    /\ call.arg.row["customer_name"] = Empty
    /\ call.arg.row["item"] = Empty
    /\ call.arg.row["date"] = DateBad
    /\ Len(call.out) = 1
    /\ Len(call.out[1]) >= 3

\* The failure condition a call of render_invoice meets.
RenderCondition(a) ==
    IF a.fs_template # "present" THEN "template not found"
    ELSE IF a.fault = "TemplateSyntaxError" THEN "template syntax error"
    ELSE IF a.fault = "Exception" THEN "other rendering failure"
    ELSE "none"

\* C19: render_invoice reports the three failure conditions (template not
\* found, template syntax error, any other rendering failure) with three
\* distinct messages, and each message includes the resolved path of the
\* template (read generously: its directory or its file name).
C19_RenderMessages ==
    (call.fn = "render_invoice" /\ call.out # << >> /\ ~call.out[1].ok) =>
        LET e    == call.out[1].exc
            cond == RenderCondition(call.arg)
        IN /\ cond = "template not found" <=>
                 e.msg \in {"Template not found: ", "Template directory not found: "}
           /\ cond = "template syntax error" <=> e.msg = "Template syntax error in "
           /\ cond = "other rendering failure" <=> e.msg = "Error rendering template: "
           /\ \/ template_dir(call.arg.template_path) \in Range(StrExc(e))
              \/ template_name(call.arg.template_path) \in Range(StrExc(e))

MarkupChars == {"<", ">", "&", "'", "\""}

Entities ==
    {[text |-> <<"&", "a", "m", "p", ";">>,      char |-> "&"],
     [text |-> <<"&", "l", "t", ";">>,           char |-> "<"],
     [text |-> <<"&", "g", "t", ";">>,           char |-> ">"],
     [text |-> <<"&", "#", "3", "9", ";">>,      char |-> "'"],
     [text |-> <<"&", "#", "3", "4", ";">>,      char |-> "\""]}

StartsWith(s, p) == Len(s) >= Len(p) /\ SubSeq(s, 1, Len(p)) = p

\* What a reader of the markup sees in the character data s: each entity
\* read as its character; <<"?">> where s holds a markup character outside
\* an entity, i.e. where s is not character data.
RECURSIVE Unescape(_)
Unescape(s) ==
    IF s = << >> THEN << >>
    ELSE IF \E e \in Entities : StartsWith(s, e.text)
    THEN LET e == CHOOSE x \in Entities : StartsWith(s, x.text)
         IN <<e.char>> \o Unescape(SubSeq(s, Len(e.text) + 1, Len(s)))
    ELSE IF Head(s) \in MarkupChars THEN <<"?">>
    ELSE <<Head(s)>> \o Unescape(Tail(s))

\* The value substituted at node k of the rendered call appears in the
\* document in escaped form only: the text produced is character data and
\* reads as the value.
EscapedAt(k) ==
    LET node  == call.arg.template[k]
        value == IF node.obj = "seller" THEN call.arg.seller[node.field]
                 ELSE call.arg.invoice[node.field]
    IN Unescape(call.out[1].html[k]) = value

Rendered == call.fn = "render_invoice" /\ call.out # << >> /\ call.out[1].ok

\* C20 as stated: whatever the template, every substituted value appears
\* in the document in escaped form only.
C20_Original ==
    Rendered =>
        \A k \in 1..Len(call.arg.template) :
            call.arg.template[k].kind = "var" => EscapedAt(k)

\* C20: every value the template substitutes without marking it safe
\* appears in the document in escaped form only, so that its
\* markup-special characters cannot be read as markup.
C20_EscapedUnlessMarkedSafe ==
    Rendered =>
        \A k \in 1..Len(call.arg.template) :
            (call.arg.template[k].kind = "var" /\ ~call.arg.template[k].safe)
                => EscapedAt(k)

C20_Witness ==
    /\ Rendered
    /\ call.arg.template = TemplatePlain
    /\ call.arg.invoice.customer_name = <<"<", "b", ">">>
    /\ call.arg.seller.full_name = <<"&", "l", "t", ";">>
    /\ call.out[1].html[4] = <<"&", "l", "t", ";", "b", "&", "g", "t", ";">>
    /\ call.out[1].html[2] = <<"&", "a", "m", "p", ";", "l", "t", ";">>

\* What went wrong in a call of html_to_pdf, by the fault met: the
\* operating system refused permission (while creating the directory or
\* writing the file), the target directory was not there, or anything else
\* (another error of the operating system such as a full disk, or an error
\* of the engine).
ExportCondition(x) ==
    IF x \in {"mkdir:PermissionError", "OSError:denied"} THEN "permission"
    ELSE IF x = "OSError:no such file" THEN "missing path"
    ELSE IF x = "none" THEN "none"
    ELSE "other"

\* C21: html_to_pdf reports its failures in exactly three kinds: permission
\* denied gives PermissionError, a target directory that cannot be created
\* or found gives FileNotFoundError, every other failure gives ValueError
\* carrying the type name and the message of the underlying error; no
\* failure that is neither of the first two is reported as
\* FileNotFoundError.
C21_ExportKinds ==
    (call.fn = "html_to_pdf" /\ call.out # << >>) =>
        LET e    == call.out[1].exc
            cond == ExportCondition(call.arg)
        IN /\ call.out[1].ok <=> cond = "none"
           /\ cond = "permission" => e.cls = "PermissionError"
           /\ cond = "missing path" => e.cls = "FileNotFoundError"
           /\ cond = "other" =>
                 /\ e.cls = "ValueError"
                 /\ {"<error_type>", EngineMessage} \subseteq Range(StrExc(e))
           /\ (~call.out[1].ok /\ e.cls = "FileNotFoundError") => cond = "missing path"

TemplateViolated == template_path # "" /\ fs_template # "present"
SellerViolated == SellerInfoErrors(seller) # << >>

\* C22: the preconditions are checked in the order template existence,
\* seller validation, CSV load, empty-row check, output directory creation:
\* the failure reported is that of the earliest violated check, and no
\* later check is evaluated (the CSV path is not examined before template
\* and seller have passed, the directory is not created before the rows
\* were loaded and found non-empty).
C22_PreconditionOrder ==
    /\ (path_kind # "unknown" \/ parse_result.kind # "pending") =>
          ~TemplateViolated /\ ~SellerViolated
    /\ (out_dir_made \/ (pc = "done" /\ result.exc.msg = "mkdir")) =>
          /\ ~TemplateViolated /\ ~SellerViolated
          /\ parse_result.kind = "returned"
          /\ invoice_rows # << >>
    /\ (pc = "done" /\ TemplateViolated) =>
          /\ result.kind = "raised"
          /\ result.exc.msg = "Template file not found: "
    /\ (pc = "done" /\ ~TemplateViolated /\ SellerViolated) =>
          /\ result.kind = "raised"
          /\ result.exc.cls = "ValidationError"
    /\ (pc = "done" /\ parse_result.kind = "raised") =>
          /\ result.kind = "raised"
          /\ result.exc.cls = parse_result.exc.cls
          /\ result.exc.msg = parse_result.exc.msg
    /\ (pc = "done" /\ parse_result.kind = "returned" /\ invoice_rows = << >>) =>
          /\ result.kind = "raised"
          /\ result.exc.msg = "No invoices found in CSV file"

C22_Witness ==
    /\ pc = "done"
    /\ TemplateViolated
    /\ SellerViolated
    /\ result.exc.msg = "Template file not found: "
    /\ path_kind = "unknown"

\* C23: in a run of the command line, the number of progress lines
\* "Generated <file> (i/N)" on standard output equals the number of files
\* produced, and no such line names the file of a row whose render or
\* export failed.
C23_ProgressLines ==
    (on_progress /\ exit_code # NoExit) =>
        LET lines == ProgressLines(progress)
        IN /\ Len(lines) = Len(successful)
           /\ \A i \in 1..Len(lines), k \in 1..Len(failed) : lines[i][2] # failed[k][1]

\* C24: the path written for a row is a direct child of the output
\* directory: whatever the transaction id ('/', '\' and '..' included), the
\* sanitized name holds no path separator, so the path below the output
\* directory is the one component pdf_name, which is neither "." nor "..".
C24_DirectChild ==
    (call.fn = "safe_filename" /\ call.out # << >>) =>
        LET o == call.out[1]
        IN /\ \A i \in 1..Len(o.pdf_name) : o.pdf_name[i] \notin PathSeparators
           /\ o.pdf_file = <<o.pdf_name>>
           /\ o.pdf_name \notin {<<".">>, <<".", ".">>}

C24_Witness ==
    /\ call.fn = "safe_filename"
    /\ call.arg = <<".", ".", "/">>
    /\ call.out # << >>
    /\ call.out[1].pdf_file = <<<<".", ".", ".", "p", "d", "f">>>>

\* C25: in the window at most one worker thread exists at any time, and
\* the Generate button is disabled from the start of a run until the
\* worker has ended and the presentation thread has run every call the
\* worker gave to after(), the completion or error notification included.
C25_SingleWorker ==
    /\ gui.threads <= 1
    /\ (gui.threads = 1 \/ AfterQueue # << >>) => gui.generate_btn = "disabled"
    /\ gui.generate_btn = "normal" => gui.worker \in {"none", "ended"}

C25_Witness ==
    /\ gui.runs = 2
    /\ gui.threads = 1
    /\ gui.generate_btn = "disabled"
    /\ pc = "g_loop"
    /\ idx = 1

\* C26: every started run eventually returns the Generate button to the
\* enabled state, whether generate_invoices returns a result or raises.
C26_ButtonReenabled ==
    (gui.generate_btn = "disabled") ~> (gui.generate_btn = "normal")

\* What the widgets show.
Widgets(g) == <<g.generate_btn, g.progress_bar, g.status_label.text, g.status_label.error>>

\* C27: the widgets change only in steps of the presentation thread (the
\* click handler, or a call taken from those given to after()), never in
\* a step of the worker; the calls are run in the order the worker gave
\* them, so the completion or error notification is run after every
\* progress update of the run, and its status is the last one shown.
C27_NotificationsInOrder ==
    /\ [](/\ gui.handled = [k \in 1..Len(gui.handled) |-> k]
          /\ Len(gui.handled) > Len(progress) => pc = "done")
    /\ [][/\ Widgets(gui') # Widgets(gui) =>
                \/ gui'.runs # gui.runs
                \/ gui'.status_label.text = "Missing required fields: "
                \/ Len(gui'.handled) = Len(gui.handled) + 1
          /\ (/\ Len(gui'.handled) = Len(gui.handled) + 1
              /\ gui'.worker = "ended"
              /\ Len(gui'.handled) = Len(progress') + Len(gui'.final)) =>
                gui'.status_label.text =
                    (IF result.kind = "raised" THEN "<str(e)>"
                     ELSE IF failed = << >> THEN "Done -- generated "
                     ELSE "Generated , failed ")]_vars

C27_Witness ==
    /\ gui.worker = "ended"
    /\ result.kind = "returned"
    /\ Len(progress) = 2
    /\ gui.handled = <<1, 2, 3>>
    /\ gui.status_label.text = "Generated , failed "
    /\ gui.progress_bar = <<1, 1>>

====
